---- MODULE Spec2Model ----
(***************************************************************************)
(* State management and persistence core of the channel-scoped chat bot   *)
(* (src/bot.py): the per-channel History Store and Session Registry, the  *)
(* StateManager (load, save, _atomic_write, schedule_save and its         *)
(* debounce runner), reset_channel and the on_message handler, as a state *)
(* machine over the asyncio event loop's steps and the executor thread's  *)
(* steps.                                                                  *)
(*                                                                         *)
(* One action is one uninterrupted run of a coroutine between two points  *)
(* at which it really yields to the event loop (an executor call, a sleep,*)
(* a network send, a contended lock), or one step of the executor thread. *)
(***************************************************************************)
EXTENDS Integers, Sequences, FiniteSets, TLC

(***************************************************************************)
(* Bounds and configuration.                                               *)
(***************************************************************************)

\* MAX_HISTORY_TURNS is 80 in src/bot.py:20; the model runs it scaled down.
MAX_HISTORY_TURNS == 2

\* AUTOSAVE_DEBOUNCE_SEC (src/bot.py:19, 0.75 s) in clock ticks of 0.375 s.
AUTOSAVE_DEBOUNCE_SEC == 2

\* Number of inbound messages the environment delivers in one behaviour.
MaxMsgs == 2

\* Channel identifiers (get_channel_id, src/bot.py:190-193).
Channels == {101, 102}

\* _save_scheduled_at = None (src/bot.py:85).
None == -1

(***************************************************************************)
(* Turns and the History Store (src/bot.py:195-222).                       *)
(* A turn keeps its role and its content; the content of the turn made    *)
(* from inbound message m is m, the bot's reply to it is m as well (with   *)
(* role "bot"), turns found in a pre-existing state file are negative.    *)
(***************************************************************************)

Turn(role, content) == [role |-> role, content |-> content]

\* channel_histories.get(ch_id, [])
HistOf(H, c) == IF c \in DOMAIN H THEN H[c] ELSE <<>>

\* H with H[c] = h (a dict assignment, creating the key when absent)
SetHist(H, c, h) == [x \in (DOMAIN H) \cup {c} |-> IF x = c THEN h ELSE H[x]]

\* channel_histories.pop(ch_id, None)
PopKey(H, c) == [x \in (DOMAIN H) \ {c} |-> H[x]]

ensure_channel_history(H, c) == IF c \in DOMAIN H THEN H ELSE SetHist(H, c, <<>>)

\* while len(hist) > MAX_HISTORY_TURNS: hist.pop(0)
TrimListOff(h) == h

TrimListNewest(h) == IF Len(h) > MAX_HISTORY_TURNS THEN SubSeq(h, 1, MAX_HISTORY_TURNS) ELSE h

RECURSIVE TrimList(_)
TrimList(h) == IF Len(h) > MAX_HISTORY_TURNS THEN TrimList(Tail(h)) ELSE h

\* trim_channel_history: mutates the list in place; a missing key trims a
\* temporary [] and leaves the store alone.
trim_channel_history(H, c) ==
    IF c \in DOMAIN H THEN SetHist(H, c, TrimList(H[c])) ELSE H

\* hist.insert(0, turn) in place of hist.append(turn)
append_turn_front(H, c, t) ==
    LET H1 == ensure_channel_history(H, c)
        H2 == SetHist(H1, c, <<t>> \o H1[c])
    IN  trim_channel_history(H2, c)

append_turn(H, c, t) ==
    LET H1 == ensure_channel_history(H, c)
        H2 == SetHist(H1, c, Append(H1[c], t))
    IN  trim_channel_history(H2, c)

append_user_turn(H, c, m) == append_turn(H, c, Turn("user", m))

append_bot_turn(H, c, m) == append_turn(H, c, Turn("bot", m))

(***************************************************************************)
(* pickle (src/bot.py:110, 145).  A pickle is a sequence of opcodes, each  *)
(* [op, arg]; a stream is complete only when it ends with STOP.            *)
(*   obj   ::= DICT 1, KEY, val | DICT 0 | INT n                           *)
(*   val   ::= DICT n, (STR c, hist)^n | INT n                             *)
(*   hist  ::= LIST n, turn^n | INT n                                      *)
(*   turn  ::= USER m | BOT m                                              *)
(***************************************************************************)

Tok(op, arg) == [op |-> op, arg |-> arg]

RECURSIVE Concat(_)
Concat(ss) == IF ss = <<>> THEN <<>> ELSE Head(ss) \o Concat(Tail(ss))

\* The keys of a dict, ascending (dict equality does not depend on order).
RECURSIVE SortedKeys(_)
SortedKeys(S) ==
    IF S = {} THEN <<>>
    ELSE LET m == CHOOSE x \in S : \A y \in S : x <= y
         IN  <<m>> \o SortedKeys(S \ {m})

DumpTurn(t) == Tok(IF t.role = "user" THEN "USER" ELSE "BOT", t.content)

DumpList(h) == <<Tok("LIST", Len(h))>> \o [i \in 1..Len(h) |-> DumpTurn(h[i])]

DumpHistories(H) ==
    LET ks == SortedKeys(DOMAIN H)
    IN  <<Tok("DICT", Len(ks))>>
        \o Concat([i \in 1..Len(ks) |-> <<Tok("STR", ks[i])>> \o DumpList(H[ks[i]])])

\* pickle.dumps({"channel_histories": channel_histories})
PickleDumps(H) ==
    <<Tok("DICT", 1), Tok("KEY", 0)>> \o DumpHistories(H) \o <<Tok("STOP", 0)>>

\* A parsed history value: a list of turns, or something that is no list.
NoItems == [x \in {} |-> 0]
HistVal(isList, elems) == [isList |-> isList, elems |-> elems]
ParseFail == [ok |-> FALSE, next |-> 0, val |-> HistVal(FALSE, <<>>)]

RECURSIVE ParseTurns(_, _, _)
ParseTurns(b, i, n) ==
    IF n = 0 THEN [ok |-> TRUE, next |-> i, elems |-> <<>>]
    ELSE IF i > Len(b) \/ b[i].op \notin {"USER", "BOT"}
         THEN [ok |-> FALSE, next |-> i, elems |-> <<>>]
         ELSE LET r == ParseTurns(b, i + 1, n - 1)
                  t == Turn(IF b[i].op = "USER" THEN "user" ELSE "bot", b[i].arg)
              IN  [ok |-> r.ok, next |-> r.next, elems |-> <<t>> \o r.elems]

ParseHist(b, i) ==
    IF i > Len(b) THEN ParseFail
    ELSE IF b[i].op = "INT"
         THEN [ok |-> TRUE, next |-> i + 1, val |-> HistVal(FALSE, <<>>)]
    ELSE IF b[i].op = "LIST"
         THEN LET r == ParseTurns(b, i + 1, b[i].arg)
              IN  [ok |-> r.ok, next |-> r.next, val |-> HistVal(TRUE, r.elems)]
    ELSE ParseFail

RECURSIVE ParseItems(_, _, _)
ParseItems(b, i, n) ==
    IF n = 0 THEN [ok |-> TRUE, next |-> i, items |-> NoItems]
    ELSE IF i > Len(b) \/ b[i].op # "STR"
         THEN [ok |-> FALSE, next |-> i, items |-> NoItems]
         ELSE LET h == ParseHist(b, i + 1)
              IN  IF ~h.ok THEN [ok |-> FALSE, next |-> i, items |-> NoItems]
                  ELSE LET r == ParseItems(b, h.next, n - 1)
                       IN  [ok |-> r.ok, next |-> r.next,
                            items |-> [x \in (DOMAIN r.items) \cup {b[i].arg} |->
                                         IF x = b[i].arg THEN h.val ELSE r.items[x]]]

\* What pickle.load gives: ok = FALSE when it raises (a truncated or foreign
\* stream); otherwise the object's shape as load() inspects it.
Unpickled(ok, isDict, hasKey, valIsDict, items) ==
    [ok |-> ok, isDict |-> isDict, hasKey |-> hasKey, valIsDict |-> valIsDict,
     items |-> items]
UnpickleError == Unpickled(FALSE, FALSE, FALSE, FALSE, NoItems)

Stops(b, i) == i = Len(b) /\ b[i].op = "STOP"

PickleLoads(b) ==
    IF Len(b) < 2 THEN UnpickleError
    ELSE IF b[1].op = "INT"
         THEN IF Stops(b, 2) THEN Unpickled(TRUE, FALSE, FALSE, FALSE, NoItems)
              ELSE UnpickleError
    ELSE IF b[1] = Tok("DICT", 0)
         THEN IF Stops(b, 2) THEN Unpickled(TRUE, TRUE, FALSE, FALSE, NoItems)
              ELSE UnpickleError
    ELSE IF b[1] = Tok("DICT", 1) /\ Len(b) >= 4 /\ b[2].op = "KEY"
         THEN IF b[3].op = "INT"
              THEN IF Stops(b, 4) THEN Unpickled(TRUE, TRUE, TRUE, FALSE, NoItems)
                   ELSE UnpickleError
              ELSE IF b[3].op = "DICT"
                   THEN LET r == ParseItems(b, 4, b[3].arg)
                        IN  IF r.ok /\ Stops(b, r.next)
                            THEN Unpickled(TRUE, TRUE, TRUE, TRUE, r.items)
                            ELSE UnpickleError
                   ELSE UnpickleError
    ELSE UnpickleError

(***************************************************************************)
(* Files.  A path holds no file, or a file with its bytes.                 *)
(***************************************************************************)

NoFile == [exists |-> FALSE, bytes |-> <<>>]
FileOf(b) == [exists |-> TRUE, bytes |-> b]

\* hist[-MAX_HISTORY_TURNS:]
LastTurnsShort(h) ==
    IF Len(h) < MAX_HISTORY_TURNS THEN h
    ELSE SubSeq(h, Len(h) - MAX_HISTORY_TURNS + 2, Len(h))

LastTurns(h) ==
    IF Len(h) <= MAX_HISTORY_TURNS THEN h
    ELSE SubSeq(h, Len(h) - MAX_HISTORY_TURNS + 1, Len(h))

\* StateManager.load (src/bot.py:139-160): the History Store after load(),
\* given the file at STATE_PATH and the store before.
LoadedKeys(items) == {c \in DOMAIN items : items[c].isList}

load(f, H) ==
    IF ~f.exists THEN H
    ELSE LET obj == PickleLoads(f.bytes)
         IN  IF ~obj.ok THEN H                          \* pickle.load raises
             ELSE IF ~obj.isDict THEN H                 \* obj.get: AttributeError
             ELSE IF ~obj.hasKey THEN NoItems           \* .get default {}
             ELSE IF ~obj.valIsDict THEN H              \* ValueError
             ELSE [c \in LoadedKeys(obj.items) |-> LastTurns(obj.items[c].elems)]

(***************************************************************************)
(* asyncio.Lock (src/bot.py:86, 104): a flag and a FIFO of waiters.        *)
(***************************************************************************)

\* Lock.acquire takes the lock at once iff it is free and nobody waits.
CanAcquireAlways(lk) == TRUE

CanAcquire(lk) == ~lk.locked /\ lk.waiters = <<>>

(***************************************************************************)
(* The state.                                                              *)
(***************************************************************************)
VARIABLES
    proc,                \* "starting" (before on_connect), "running", then
                         \* "stopping" (bot.run has returned) and "exited"
    now,                 \* loop.time(), in ticks
    nextMsg,             \* messages delivered so far (the latest one's id)
    channel_histories,   \* src/bot.py:64
    channel_sessions,    \* src/bot.py:66: the channels with a live session
    save_task,           \* StateManager._save_task is not None
    save_scheduled_at,   \* StateManager._save_scheduled_at
    runners,             \* live _runner tasks
    saves,               \* save() calls in progress
    lock,                \* StateManager._lock
    file,                \* the file at STATE_PATH
    handlers,            \* on_message handlers suspended in the AI call or the send
    lastWrite,           \* history: the latest _atomic_write handed to the executor
    lastOp,              \* history: the latest step, when it was a load, a reset or a crash
    log                  \* history: the scheduler's events, kept by the scheduler harness

vars == <<proc, now, nextMsg, channel_histories, channel_sessions, save_task,
          save_scheduled_at, runners, saves, lock, file, handlers, lastWrite,
          lastOp, log>>

RunnerId == 0

\* the save() of the shutdown sequence (src/bot.py:419), as a caller's id
FinalId == -2

Op(op, ch, flag) == [op |-> op, ch |-> ch, flag |-> flag]
OtherOp == Op("other", 0, FALSE)

\* lastWrite: the target's content when the write was handed over, the
\* payload, the History Store the payload was pickled from, and whether any
\* write was handed over at all.
Write(old, new, store, saved) == [old |-> old, new |-> new, store |-> store, saved |-> saved]

(***************************************************************************)
(* Pre-existing content of STATE_PATH when the process starts.            *)
(***************************************************************************)
OldTurns(n) == [i \in 1..n |-> Turn(IF i % 2 = 1 THEN "user" ELSE "bot", -i)]

\* one channel's value is no list; the other's list was written by a run
\* configured with a larger MAX_HISTORY_TURNS
MixedFile ==
    FileOf(<<Tok("DICT", 1), Tok("KEY", 0), Tok("DICT", 2),
             Tok("STR", 101), Tok("INT", 5), Tok("STR", 102)>>
           \o DumpList(OldTurns(MAX_HISTORY_TURNS + 1)) \o <<Tok("STOP", 0)>>)

\* a truncated stream
TruncatedFile == FileOf(<<Tok("DICT", 1), Tok("KEY", 0), Tok("DICT", 1)>>)

InitFiles == {NoFile, MixedFile, TruncatedFile}

Init ==
    /\ proc = "starting"
    /\ now = 0
    /\ nextMsg = 0
    /\ channel_histories = NoItems
    /\ channel_sessions = {}
    /\ save_task = FALSE
    /\ save_scheduled_at = None
    /\ runners = {}
    /\ saves = {}
    /\ lock = [locked |-> FALSE, waiters |-> <<>>]
    /\ file \in InitFiles
    /\ handlers = {}
    /\ lastWrite = Write(file, file, NoItems, FALSE)
    /\ lastOp = OtherOp
    /\ log = <<>>

(***************************************************************************)
(* StateManager.schedule_save (src/bot.py:122-137): no await in it yields, *)
(* so it runs within its caller's step.  sm is the scheduler's state.      *)
(***************************************************************************)
Sched(task, at, rs) == [task |-> task, at |-> at, runners |-> rs]

Runner(expected_when, pc) == [expected_when |-> expected_when, pc |-> pc]

schedule_save(sm, t) ==
    IF ~sm.task
    THEN Sched(TRUE, t, sm.runners \cup {Runner(t, "sleep")})
    ELSE Sched(sm.task, t, sm.runners)

\* a caller's `await state.schedule_save()`
Scheduled ==
    LET sm == schedule_save(Sched(save_task, save_scheduled_at, runners), now)
    IN  /\ save_task' = sm.task
        /\ save_scheduled_at' = sm.at
        /\ runners' = sm.runners

(***************************************************************************)
(* StateManager.save up to its first yield (src/bot.py:103-112): with the  *)
(* lock free it takes it, pickles the store as it is now and hands        *)
(* _atomic_write to the executor; otherwise it queues on the lock.         *)
(***************************************************************************)
Save(id, pc, data) == [id |-> id, pc |-> pc, data |-> data, tmp |-> NoFile, ok |-> TRUE]

save_call(lk, sv, id, H) ==
    IF CanAcquire(lk)
    THEN [lock |-> [lk EXCEPT !.locked = TRUE],
          saves |-> sv \cup {Save(id, "write", PickleDumps(H))},
          offloaded |-> TRUE]
    ELSE [lock |-> [lk EXCEPT !.waiters = Append(@, id)],
          saves |-> sv \cup {Save(id, "lock", <<>>)},
          offloaded |-> FALSE]

NoteWrite(offloaded, H) ==
    IF offloaded THEN Write(file, FileOf(PickleDumps(H)), H, TRUE) ELSE lastWrite

(***************************************************************************)
(* reset_channel up to save() (src/bot.py:239-248).                        *)
(***************************************************************************)
reset_histories_all(H, c) == NoItems

reset_histories(H, c) == PopKey(H, c)

reset_sessions(S, c) == S \ {c}

(***************************************************************************)
(* on_connect (src/bot.py:253-258): state.load().  Fired when the gateway  *)
(* connection is made, at startup and again after a reconnect.             *)
(***************************************************************************)
OnConnect ==
    /\ proc \in {"starting", "running"}
    /\ channel_histories' = load(file, channel_histories)
    /\ proc' = "running"
    /\ lastOp' = Op("load", 0, FALSE)
    /\ UNCHANGED <<now, nextMsg, channel_sessions, save_task, save_scheduled_at,
                   runners, saves, lock, file, handlers, lastWrite>>

(***************************************************************************)
(* on_message (src/bot.py:264-343), first step: the user turn, the        *)
(* debounced save request, and everything up to the first real yield.      *)
(***************************************************************************)
Receive(c) ==
    /\ proc = "running"
    /\ nextMsg < MaxMsgs
    /\ nextMsg' = nextMsg + 1
    /\ channel_histories' = append_user_turn(channel_histories, c, nextMsg + 1)
    /\ Scheduled

\* a message that neither addresses the bot nor is a command
OnMessagePlain(c) ==
    /\ Receive(c)
    /\ lastOp' = OtherOp
    /\ UNCHANGED <<proc, now, channel_sessions, saves, lock, file, handlers, lastWrite>>

\* "!new" or "!forget": process_commands runs reset_channel in the same step
OnMessageReset(c) ==
    /\ proc = "running"
    /\ nextMsg < MaxMsgs
    /\ nextMsg' = nextMsg + 1
    /\ Scheduled
    /\ LET H1 == append_user_turn(channel_histories, c, nextMsg + 1)
           H2 == reset_histories(H1, c)
           r  == save_call(lock, saves, nextMsg + 1, H2)
       IN  /\ channel_histories' = H2
           /\ channel_sessions' = reset_sessions(channel_sessions, c)
           /\ lock' = r.lock
           /\ saves' = r.saves
           /\ lastWrite' = NoteWrite(r.offloaded, H2)
    /\ lastOp' = Op("reset", c, c \in channel_sessions /\ HistOf(channel_histories, c) # <<>>)
    /\ UNCHANGED <<proc, now, file, handlers>>

(***************************************************************************)
(* The history command (src/bot.py:354-372), run by process_commands in    *)
(* the step of the on_message that received "!history [n]".                *)
(***************************************************************************)
\* n = max(1, min(n, 30))
HISTORY_MAX_SHOWN == 30

history_n(n) ==
    LET lo == IF n < HISTORY_MAX_SHOWN THEN n ELSE HISTORY_MAX_SHOWN
    IN  IF lo > 1 THEN lo ELSE 1

\* hist[-n:]: the whole list when n >= len(hist), and also when n = 0
LastN(h, n) ==
    IF n = 0 \/ n >= Len(h) THEN h ELSE SubSeq(h, Len(h) - n + 1, Len(h))

\* what the command shows: channel_histories[ch_id][-n:]
history_shown(H, c, n) == [n |-> history_n(n), turns |-> LastN(H[c], history_n(n))]

\* the History Store after the command: ensure_channel_history(ch_id)
history_store_sliced(H, c, n) == SetHist(H, c, LastN(HistOf(H, c), history_n(n)))

history_store(H, c, n) == ensure_channel_history(H, c)

\* the values of n users give: none (the default, 12), and some others
HistoryArgs == {0, 1, 12, 31}

OnMessageHistory(c, n) ==
    /\ proc = "running"
    /\ nextMsg < MaxMsgs
    /\ nextMsg' = nextMsg + 1
    /\ Scheduled
    /\ LET H1 == append_user_turn(channel_histories, c, nextMsg + 1)
       IN  channel_histories' = history_store(H1, c, n)
    /\ lastOp' = OtherOp
    /\ UNCHANGED <<proc, now, channel_sessions, saves, lock, file, handlers, lastWrite>>

\* a message that mentions the bot first: ensure_channel_session, then the
\* AI call is handed to the executor (created = FALSE: client.chats.create raised)
Handler(m, c, pc) == [msg |-> m, ch |-> c, pc |-> pc]

\* the registry after ensure_channel_session; created = FALSE: it raised
ensure_channel_session_marked(S, c, created) == S \cup {c}

ensure_channel_session(S, c, created) ==
    IF c \in S THEN S ELSE IF created THEN S \cup {c} ELSE S

OnMessageMention(c, created) ==
    /\ Receive(c)
    /\ channel_sessions' = ensure_channel_session(channel_sessions, c, created)
    /\ handlers' = IF c \in channel_sessions'
                   THEN handlers \cup {Handler(nextMsg + 1, c, "ai")}
                   ELSE handlers
    /\ lastOp' = OtherOp
    /\ UNCHANGED <<proc, now, saves, lock, file, lastWrite>>

\* send_message returned (ok) or raised: the reply is sent, or the apology
AiDone(h, ok) ==
    /\ h \in handlers /\ h.pc = "ai"
    /\ handlers' = IF ok THEN (handlers \ {h}) \cup {Handler(h.msg, h.ch, "send")}
                   ELSE handlers \ {h}
    /\ lastOp' = OtherOp
    /\ UNCHANGED <<proc, now, nextMsg, channel_histories, channel_sessions, save_task,
                   save_scheduled_at, runners, saves, lock, file, lastWrite>>

\* lines 333-340: the bot turn is appended unless the send raised
after_send_recorded(H, c, m, ok) == append_bot_turn(H, c, m)

after_send(H, c, m, ok) == IF ok THEN append_bot_turn(H, c, m) ELSE H

\* message.channel.send(addressed) returned (ok) or raised
SendDone(h, ok) ==
    /\ h \in handlers /\ h.pc = "send"
    /\ handlers' = handlers \ {h}
    /\ channel_histories' = after_send(channel_histories, h.ch, h.msg, ok)
    /\ IF ok THEN Scheduled ELSE UNCHANGED <<save_task, save_scheduled_at, runners>>
    /\ lastOp' = OtherOp
    /\ UNCHANGED <<proc, now, nextMsg, channel_sessions, saves, lock, file, lastWrite>>

(***************************************************************************)
(* The clock (loop.time(), src/bot.py:123).  The program reads it in       *)
(* schedule_save and through the end of asyncio.sleep only, so the model   *)
(* lets it advance while a sleep is pending and no further: between two    *)
(* sleeps its value decides nothing.                                       *)
(***************************************************************************)
Sleeping == {r \in runners : r.pc = "sleep" /\ now < r.expected_when + AUTOSAVE_DEBOUNCE_SEC}

Tick ==
    /\ Sleeping # {}
    /\ now' = now + 1
    /\ lastOp' = OtherOp
    /\ UNCHANGED <<proc, nextMsg, channel_histories, channel_sessions, save_task,
                   save_scheduled_at, runners, saves, lock, file, handlers,
                   lastWrite>>

(***************************************************************************)
(* _runner (src/bot.py:126-134).                                           *)
(***************************************************************************)
\* asyncio.sleep(self.debounce_sec) has returned
SleepOverAtOnce(r) == TRUE

SleepOver(r) == now >= r.expected_when + AUTOSAVE_DEBOUNCE_SEC

\* line 129
Superseded(r) == save_scheduled_at # r.expected_when

\* the finally clause: _save_task afterwards
runner_finally_keep(task, at, r) == task

runner_finally(task, at, r) == IF at = r.expected_when THEN FALSE ELSE task

\* asyncio.sleep returns: superseded, the runner returns; else it calls save()
RunnerWake(r) ==
    /\ r \in runners /\ r.pc = "sleep"
    /\ SleepOver(r)
    /\ IF Superseded(r)
       THEN /\ runners' = runners \ {r}
            /\ save_task' = runner_finally(save_task, save_scheduled_at, r)
            /\ UNCHANGED <<saves, lock, lastWrite>>
       ELSE LET c == save_call(lock, saves, RunnerId, channel_histories)
            IN  /\ runners' = (runners \ {r}) \cup {Runner(r.expected_when, "save")}
                /\ lock' = c.lock
                /\ saves' = c.saves
                /\ lastWrite' = NoteWrite(c.offloaded, channel_histories)
                /\ UNCHANGED save_task
    /\ lastOp' = OtherOp
    /\ UNCHANGED <<proc, now, nextMsg, channel_histories, channel_sessions,
                   save_scheduled_at, file, handlers>>

(***************************************************************************)
(* save(), after the lock was contended: the first waiter is woken by the  *)
(* release and takes the lock (src/bot.py:104-112).                        *)
(***************************************************************************)
SaveAcquire(s) ==
    /\ s \in saves /\ s.pc = "lock"
    /\ ~lock.locked /\ lock.waiters # <<>> /\ Head(lock.waiters) = s.id
    /\ lock' = [locked |-> TRUE, waiters |-> Tail(lock.waiters)]
    /\ saves' = (saves \ {s}) \cup {Save(s.id, "write", PickleDumps(channel_histories))}
    /\ lastWrite' = NoteWrite(TRUE, channel_histories)
    /\ lastOp' = OtherOp
    /\ UNCHANGED <<proc, now, nextMsg, channel_histories, channel_sessions, save_task,
                   save_scheduled_at, runners, file, handlers>>

(***************************************************************************)
(* _atomic_write on the executor thread (src/bot.py:93-101).               *)
(***************************************************************************)
\* the temporary file after tmp.write(data); tmp.flush(); os.fsync(...)
tmp_write_unflushed(data) == FileOf(SubSeq(data, 1, Len(data) - 1))

tmp_write(data) == FileOf(data)

\* lines 94-100: the temporary file is created, written and closed
ExecWriteTmp(s) ==
    /\ s \in saves /\ s.pc = "write"
    /\ saves' = (saves \ {s}) \cup {[s EXCEPT !.pc = "replace", !.tmp = tmp_write(s.data)]}
    /\ lastOp' = OtherOp
    /\ UNCHANGED <<proc, now, nextMsg, channel_histories, channel_sessions, save_task,
                   save_scheduled_at, runners, lock, file, handlers, lastWrite>>

\* line 101: os.replace(tmp_name, self.path)
ExecReplace(s) ==
    /\ s \in saves /\ s.pc = "replace"
    /\ file' = s.tmp
    /\ saves' = (saves \ {s}) \cup {[s EXCEPT !.pc = "resume", !.tmp = NoFile]}
    /\ lastOp' = OtherOp
    /\ UNCHANGED <<proc, now, nextMsg, channel_histories, channel_sessions, save_task,
                   save_scheduled_at, runners, lock, handlers, lastWrite>>

\* an OSError anywhere in _atomic_write
ExecFail(s) ==
    /\ s \in saves /\ s.pc \in {"write", "replace"}
    /\ saves' = (saves \ {s}) \cup {[s EXCEPT !.pc = "resume", !.ok = FALSE]}
    /\ lastOp' = OtherOp
    /\ UNCHANGED <<proc, now, nextMsg, channel_histories, channel_sessions, save_task,
                   save_scheduled_at, runners, lock, file, handlers, lastWrite>>

(***************************************************************************)
(* save() resumes after run_in_executor (src/bot.py:113-120): it logs and  *)
(* releases the lock; the runner then runs its finally clause and ends.    *)
(***************************************************************************)
SaveResume(s) ==
    /\ proc = "running"
    /\ s \in saves /\ s.pc = "resume"
    /\ saves' = saves \ {s}
    /\ lock' = [lock EXCEPT !.locked = FALSE]
    /\ IF s.id = RunnerId
       THEN \E r \in runners :
                 /\ r.pc = "save"
                 /\ runners' = runners \ {r}
                 /\ save_task' = runner_finally(save_task, save_scheduled_at, r)
       ELSE UNCHANGED <<runners, save_task>>
    /\ lastOp' = OtherOp
    /\ UNCHANGED <<proc, now, nextMsg, channel_histories, channel_sessions,
                   save_scheduled_at, file, handlers, lastWrite>>

(***************************************************************************)
(* The process is killed and started again: memory is lost, the files stay.*)
(***************************************************************************)
Crash ==
    /\ proc = "running"
    /\ proc' = "starting"
    /\ channel_histories' = NoItems
    /\ channel_sessions' = {}
    /\ save_task' = FALSE
    /\ save_scheduled_at' = None
    /\ runners' = {}
    /\ saves' = {}
    /\ lock' = [locked |-> FALSE, waiters |-> <<>>]
    /\ handlers' = {}
    /\ lastOp' = Op("crash", 0, \E s \in saves : s.pc = "replace")
    /\ UNCHANGED <<now, nextMsg, file, lastWrite>>

(***************************************************************************)
(* Shutdown (src/bot.py:407-423).  bot.run returns, on a signal or on an   *)
(* error: the library has cancelled every task of the bot's event loop and *)
(* closed the loop without waiting for its executor.  A cancelled save()   *)
(* leaves its `async with` and so releases the lock (CancelledError is no  *)
(* Exception), but the executor thread it handed _atomic_write to cannot   *)
(* be cancelled and runs on.  The finally clause then runs state.save() on *)
(* a new event loop: the lock is free, the store is pickled as it is, and  *)
(* the write goes to the new loop's executor.  Memory is kept throughout.  *)
(***************************************************************************)
\* the _atomic_write calls still running on the closed loop's executor
cancelled_saves(sv) == {s \in sv : s.pc \in {"write", "replace"}}

Shutdown ==
    /\ proc \in {"starting", "running"}
    /\ proc' = "stopping"
    /\ runners' = {}
    /\ handlers' = {}
    /\ saves' = cancelled_saves(saves)
                   \cup {Save(FinalId, "write", PickleDumps(channel_histories))}
    /\ lock' = [locked |-> TRUE, waiters |-> <<>>]
    /\ lastWrite' = NoteWrite(TRUE, channel_histories)
    /\ lastOp' = Op("shutdown", 0, cancelled_saves(saves) # {})
    /\ UNCHANGED <<now, nextMsg, channel_histories, channel_sessions, save_task,
                   save_scheduled_at, file>>

\* The final save() resumes and returns, run_until_complete returns and the
\* interpreter exits, having joined the executor threads that still ran.
Exit ==
    /\ proc = "stopping"
    /\ \A s \in saves : s.pc = "resume"
    /\ \E s \in saves :
         /\ s.id = FinalId
         /\ lastOp' = Op("exit", 0, s.ok)
    /\ proc' = "exited"
    /\ saves' = {}
    /\ lock' = [locked |-> FALSE, waiters |-> <<>>]
    /\ UNCHANGED <<now, nextMsg, channel_histories, channel_sessions, save_task,
                   save_scheduled_at, runners, file, handlers, lastWrite>>

(***************************************************************************)
(* The running program: every handler and step, in any order.             *)
(***************************************************************************)
Next ==
    \/ OnConnect /\ UNCHANGED log
    \/ \E c \in Channels : OnMessagePlain(c) /\ UNCHANGED log
    \/ \E c \in Channels : OnMessageReset(c) /\ UNCHANGED log
    \/ \E c \in Channels, n \in HistoryArgs : OnMessageHistory(c, n) /\ UNCHANGED log
    \/ \E c \in Channels, created \in BOOLEAN : OnMessageMention(c, created) /\ UNCHANGED log
    \/ \E h \in handlers, ok \in BOOLEAN : AiDone(h, ok) /\ UNCHANGED log
    \/ \E h \in handlers, ok \in BOOLEAN : SendDone(h, ok) /\ UNCHANGED log
    \/ Tick /\ UNCHANGED log
    \/ \E r \in runners : RunnerWake(r) /\ UNCHANGED log
    \/ \E s \in saves : SaveAcquire(s) /\ UNCHANGED log
    \/ \E s \in saves : ExecWriteTmp(s) /\ UNCHANGED log
    \/ \E s \in saves : ExecReplace(s) /\ UNCHANGED log
    \/ \E s \in saves : ExecFail(s) /\ UNCHANGED log
    \/ \E s \in saves : SaveResume(s) /\ UNCHANGED log
    \/ Crash /\ UNCHANGED log

Spec == Init /\ [][Next]_vars

(***************************************************************************)
(* The program with its shutdown sequence.                                 *)
(***************************************************************************)
StopNext ==
    \/ Next
    \/ Shutdown /\ UNCHANGED log
    \/ Exit /\ UNCHANGED log

StopSpec == Init /\ [][StopNext]_vars

(***************************************************************************)
(* The program while it keeps running, stays connected and its writes     *)
(* succeed: no kill, no reconnect, no OSError.  The event loop runs every  *)
(* task that is ready, the executor finishes what it was handed, and a     *)
(* pending sleep ends.                                                     *)
(***************************************************************************)
FairNext ==
    \/ proc = "starting" /\ OnConnect /\ UNCHANGED log
    \/ \E c \in Channels : OnMessagePlain(c) /\ UNCHANGED log
    \/ \E c \in Channels : OnMessageReset(c) /\ UNCHANGED log
    \/ \E c \in Channels, n \in HistoryArgs : OnMessageHistory(c, n) /\ UNCHANGED log
    \/ \E c \in Channels, created \in BOOLEAN : OnMessageMention(c, created) /\ UNCHANGED log
    \/ \E h \in handlers, ok \in BOOLEAN : AiDone(h, ok) /\ UNCHANGED log
    \/ \E h \in handlers, ok \in BOOLEAN : SendDone(h, ok) /\ UNCHANGED log
    \/ Tick /\ UNCHANGED log
    \/ \E r \in runners : RunnerWake(r) /\ UNCHANGED log
    \/ \E s \in saves : SaveAcquire(s) /\ UNCHANGED log
    \/ \E s \in saves : ExecWriteTmp(s) /\ UNCHANGED log
    \/ \E s \in saves : ExecReplace(s) /\ UNCHANGED log
    \/ \E s \in saves : SaveResume(s) /\ UNCHANGED log

Fairness ==
    /\ WF_vars(Tick /\ UNCHANGED log)
    /\ WF_vars(\E r \in runners : RunnerWake(r) /\ UNCHANGED log)
    /\ WF_vars(\E s \in saves : SaveAcquire(s) /\ UNCHANGED log)
    /\ WF_vars(\E s \in saves : ExecWriteTmp(s) /\ UNCHANGED log)
    /\ WF_vars(\E s \in saves : ExecReplace(s) /\ UNCHANGED log)
    /\ WF_vars(\E s \in saves : SaveResume(s) /\ UNCHANGED log)

FairSpec == Init /\ [][FairNext]_vars /\ Fairness

(***************************************************************************)
(* The scheduler on its own: schedule_save is called by plain messages    *)
(* only, and every call, every wake-up of the runner and every end of its  *)
(* save is written to the log with the time it happened at.                *)
(***************************************************************************)
Ev(e, t, idle) == [e |-> e, t |-> t, idle |-> idle]

SchedNext ==
    \/ OnConnect /\ UNCHANGED log
    \/ \E c \in Channels :
         OnMessagePlain(c) /\ log' = Append(log, Ev("req", now, ~save_task))
    \/ Tick /\ UNCHANGED log
    \/ \E r \in runners :
         /\ RunnerWake(r)
         /\ log' = Append(log, Ev(IF Superseded(r) THEN "abort" ELSE "save", now, FALSE))
    \/ \E s \in saves : ExecWriteTmp(s) /\ UNCHANGED log
    \/ \E s \in saves : ExecReplace(s) /\ UNCHANGED log
    \/ \E s \in saves : ExecFail(s) /\ UNCHANGED log
    \/ \E s \in saves :
         /\ SaveResume(s)
         /\ log' = Append(log, Ev(IF s.ok THEN "done" ELSE "failed", now, FALSE))

SchedSpec == Init /\ [][SchedNext]_vars

IsReq(e) == e.e = "req"
IsSave(e) == e.e = "save"
IsAbort(e) == e.e = "abort"

Reqs == SelectSeq(log, IsReq)
RunnerSaves == SelectSeq(log, IsSave)

\* no runner and no save() is left: the scheduler will do nothing more
SchedIdle == runners = {} /\ saves = {}

\* the events after the latest request
LastReqPos == CHOOSE i \in 1..Len(log) : IsReq(log[i]) /\ \A j \in (i + 1)..Len(log) : ~IsReq(log[j])
AfterLastReq == SubSeq(log, LastReqPos + 1, Len(log))

(***************************************************************************)
(* The conversation on its own: the message handlers and the saves that    *)
(* reset_channel makes, with the log holding what each handler did: the    *)
(* load at startup (out: the store it left), every turn appended ("user",  *)
(* "bot"), every reset, what a history command showed (out), every AI call *)
(* made ("asked") and every failure of the session factory, the AI call    *)
(* and the send.                                                           *)
(***************************************************************************)
Cv(e, ch, msg, out) == [e |-> e, ch |-> ch, msg |-> msg, out |-> out]

ChatNext ==
    \/ /\ proc = "starting"
       /\ OnConnect
       /\ log' = Append(log, Cv("load", 0, 0, channel_histories'))
    \/ \E c \in Channels :
         /\ OnMessagePlain(c)
         /\ log' = Append(log, Cv("user", c, nextMsg', <<>>))
    \/ \E c \in Channels :
         /\ OnMessageReset(c)
         /\ log' = Append(log, Cv("reset", c, nextMsg', <<>>))
    \/ \E c \in Channels, n \in HistoryArgs :
         /\ OnMessageHistory(c, n)
         /\ log' = log \o <<Cv("user", c, nextMsg', <<>>),
                            Cv("history", c, n, history_shown(channel_histories', c, n))>>
    \/ \E c \in Channels, created \in BOOLEAN :
         /\ OnMessageMention(c, created)
         /\ log' = log \o <<Cv("user", c, nextMsg', <<>>)>>
                       \o <<Cv(IF c \in channel_sessions' THEN "asked" ELSE "nosession",
                              c, nextMsg', <<>>)>>
    \/ \E h \in handlers, ok \in BOOLEAN :
         /\ AiDone(h, ok)
         /\ log' = IF ok THEN log ELSE Append(log, Cv("aifail", h.ch, h.msg, <<>>))
    \/ \E h \in handlers, ok \in BOOLEAN :
         /\ SendDone(h, ok)
         /\ log' = Append(log, Cv(IF ok THEN "bot" ELSE "sendfail", h.ch, h.msg, <<>>))
    \/ \E s \in saves : SaveAcquire(s) /\ UNCHANGED log
    \/ \E s \in saves : ExecWriteTmp(s) /\ UNCHANGED log
    \/ \E s \in saves : ExecReplace(s) /\ UNCHANGED log
    \/ \E s \in saves : SaveResume(s) /\ UNCHANGED log

ChatSpec == Init /\ [][ChatNext]_vars

\* the latest event that emptied or replaced channel c's history (0: none)
ClearPos(c) ==
    LET P == {i \in 1..Len(log) : log[i].e = "load" \/ (log[i].e = "reset" /\ log[i].ch = c)}
    IN  IF P = {} THEN 0 ELSE CHOOSE i \in P : \A j \in P : j <= i

\* what that event left in c's history
Base(c) ==
    IF ClearPos(c) > 0 /\ log[ClearPos(c)].e = "load"
    THEN HistOf(log[ClearPos(c)].out, c)
    ELSE <<>>

IsAppendTo(c, e) == e.e \in {"user", "bot"} /\ e.ch = c

\* the turns appended to c since, in the order they were appended
Appended(c) ==
    LET es == SelectSeq(SubSeq(log, ClearPos(c) + 1, Len(log)), LAMBDA e : IsAppendTo(c, e))
    IN  [i \in 1..Len(es) |-> Turn(es[i].e, es[i].msg)]

(***************************************************************************)
(* C1.  Every channel's history holds at most MAX_HISTORY_TURNS turns, in  *)
(* every reachable state, whatever appends, resets and loads led to it.    *)
(***************************************************************************)
HistoryBound ==
    \A c \in DOMAIN channel_histories : Len(channel_histories[c]) <= MAX_HISTORY_TURNS

\* a full history that was clamped on load and then evicted its oldest turn
\* for a new one
HistoryBoundWitness ==
    \E c \in DOMAIN channel_histories :
        /\ Len(channel_histories[c]) = MAX_HISTORY_TURNS
        /\ channel_histories[c][1].content = -(MAX_HISTORY_TURNS + 1)
        /\ channel_histories[c][MAX_HISTORY_TURNS].content >= 1

(***************************************************************************)
(* C2.  Debounce coalescing: when schedule_save was called N >= 2 times,   *)
(* each call less than the debounce interval after the one before, and the *)
(* scheduler has come to rest, exactly one save was run, and it was        *)
(* started no sooner than the debounce interval after the last call.       *)
(***************************************************************************)
Burst ==
    /\ Len(Reqs) >= 2
    /\ Reqs[1].idle
    /\ \A i \in 2..Len(Reqs) : Reqs[i].t - Reqs[i - 1].t < AUTOSAVE_DEBOUNCE_SEC

DebounceCoalescing ==
    (Burst /\ SchedIdle) =>
        /\ Len(RunnerSaves) = 1
        /\ RunnerSaves[1].t >= Reqs[Len(Reqs)].t + AUTOSAVE_DEBOUNCE_SEC

(***************************************************************************)
(* C3.  Eventual persistence: once a save was requested, a History Store  *)
(* that differs from the state file is eventually on disk (the process     *)
(* keeps running and no write fails).                                      *)
(***************************************************************************)
InSync == file = FileOf(PickleDumps(channel_histories))

Dirty == save_scheduled_at # None /\ ~InSync

EventualPersistence == Dirty ~> InSync

(***************************************************************************)
(* C4.  Atomic write: the target path always holds either what it held    *)
(* when the latest _atomic_write began or that write's complete payload,   *)
(* also after the process was killed in the middle of the write.           *)
(***************************************************************************)
AtomicTarget == file \in {lastWrite.old, lastWrite.new}

\* killed after the temporary file was written and before the rename: the
\* target still holds the previous content
AtomicTargetWitness ==
    /\ lastOp = Op("crash", 0, TRUE)
    /\ file = lastWrite.old
    /\ lastWrite.new # lastWrite.old

(***************************************************************************)
(* C5.  Round trip: load() of a state file that save() wrote yields the    *)
(* History Store that was saved: the same channels, each with its last     *)
(* MAX_HISTORY_TURNS turns in their order.                                 *)
(***************************************************************************)
Clamped(h) ==
    IF Len(h) <= MAX_HISTORY_TURNS THEN h
    ELSE [i \in 1..MAX_HISTORY_TURNS |-> h[Len(h) - MAX_HISTORY_TURNS + i]]

RoundTrip ==
    (lastOp.op = "load" /\ lastWrite.saved /\ file = lastWrite.new) =>
        /\ DOMAIN channel_histories = DOMAIN lastWrite.store
        /\ \A c \in DOMAIN lastWrite.store :
               channel_histories[c] = Clamped(lastWrite.store[c])

\* a load of a saved store with a full history holding a user and a bot turn
RoundTripWitness ==
    /\ lastOp.op = "load" /\ lastWrite.saved /\ file = lastWrite.new
    /\ \E c \in DOMAIN lastWrite.store :
           /\ Len(lastWrite.store[c]) = MAX_HISTORY_TURNS
           /\ \E i, j \in 1..MAX_HISTORY_TURNS :
                  /\ lastWrite.store[c][i].role = "user"
                  /\ lastWrite.store[c][j].role = "bot"

(***************************************************************************)
(* C6.  Reset: the step that runs reset_channel(c) for a channel with      *)
(* turns and a live session leaves c without history and without session,  *)
(* calls save() exactly once in that very step (no runner's save), and     *)
(* leaves the history and the session of every other channel as they were. *)
(***************************************************************************)
ResetEffect ==
    [][\A c \in Channels :
         (OnMessageReset(c) /\ c \in channel_sessions /\ HistOf(channel_histories, c) # <<>>) =>
            /\ c \notin DOMAIN channel_histories'
            /\ c \notin channel_sessions'
            /\ Cardinality(saves' \ saves) = 1
            /\ \A s \in saves' \ saves : s.id # RunnerId /\ s.pc \in {"write", "lock"}
            /\ \A r \in runners' : r.pc = "save" => r \in runners
            /\ \A d \in Channels \ {c} :
                  /\ (d \in DOMAIN channel_histories') = (d \in DOMAIN channel_histories)
                  /\ HistOf(channel_histories', d) = HistOf(channel_histories, d)
                  /\ (d \in channel_sessions') = (d \in channel_sessions)]_vars

\* right after such a reset, another channel still holding its turns
ResetEffectWitness ==
    \E c \in Channels :
        /\ lastOp = Op("reset", c, TRUE)
        /\ \E s \in saves : s.id = nextMsg
        /\ \E d \in Channels \ {c} : HistOf(channel_histories, d) # <<>>

(***************************************************************************)
(* C7.  Load with malformed content: after load() of a state file that     *)
(* exists and has not the expected shape, the History Store is empty.      *)
(***************************************************************************)
Malformed(b) ==
    LET o == PickleLoads(b)
    IN  \/ ~o.ok
        \/ ~o.isDict
        \/ o.hasKey /\ ~o.valIsDict
        \/ \E c \in DOMAIN o.items : ~o.items[c].isList

LoadMalformedEmpty ==
    (lastOp.op = "load" /\ file.exists /\ Malformed(file.bytes)) =>
        channel_histories = NoItems

(***************************************************************************)
(* C8.  Single request: after a schedule_save call made with no save task  *)
(* pending and followed by no other call, the runner never gives up, runs  *)
(* save() at most once and no sooner than the debounce interval after the  *)
(* call, and has run it exactly once when the scheduler has come to rest.  *)
(***************************************************************************)
SingleRequest ==
    (Reqs # <<>> /\ log[LastReqPos].idle) =>
        LET after == AfterLastReq
            ran   == SelectSeq(after, IsSave)
        IN  /\ SelectSeq(after, IsAbort) = <<>>
            /\ Len(ran) <= 1
            /\ \A i \in 1..Len(ran) : ran[i].t >= log[LastReqPos].t + AUTOSAVE_DEBOUNCE_SEC
            /\ SchedIdle => Len(ran) = 1

\* one call, one save, and the scheduler at rest
SingleRequestWitness ==
    /\ Len(Reqs) = 1 /\ log[1].idle
    /\ SchedIdle
    /\ Len(RunnerSaves) = 1

(***************************************************************************)
(* C9.  Debounce isolation: a schedule_save call made after the previous   *)
(* call's save has completed finds no save task pending, and when it is    *)
(* the last call and the scheduler has come to rest, save() has run twice  *)
(* since the previous call: once for each.                                 *)
(***************************************************************************)
Isolated(i) ==
    /\ i >= 4
    /\ IsReq(log[i - 3]) /\ log[i - 3].idle
    /\ IsSave(log[i - 2])
    /\ log[i - 1].e = "done"
    /\ IsReq(log[i])

DebounceIsolation ==
    \A i \in 1..Len(log) :
        Isolated(i) =>
            /\ log[i].idle
            /\ (i = LastReqPos /\ SchedIdle) =>
                   Len(SelectSeq(SubSeq(log, i - 3, Len(log)), IsSave)) = 2

\* two calls, the second after the first one's save, and two saves
DebounceIsolationWitness ==
    /\ SchedIdle
    /\ \E i \in 1..Len(log) : Isolated(i) /\ i = LastReqPos
    /\ Len(RunnerSaves) = 2

(***************************************************************************)
(* C10.  Save mutual exclusion: at most one save() at a time is between    *)
(* taking its snapshot and the end of its disk write, whoever called it.   *)
(***************************************************************************)
Writing == {s \in saves : s.pc \in {"write", "replace", "resume"}}

FinalSaveCurrent ==
    (proc = "exited" /\ lastOp = Op("exit", 0, TRUE)) =>
        file = FileOf(PickleDumps(channel_histories))

(***************************************************************************)
(* C12.  FIFO retention: after every append, a channel's history is the    *)
(* most recent MAX_HISTORY_TURNS (all, when fewer) of what its last load   *)
(* or reset left followed by the turns appended since, in arrival order.   *)
(***************************************************************************)
FifoRetention ==
    \A c \in Channels : HistOf(channel_histories, c) = Clamped(Base(c) \o Appended(c))

\* more than MAX_HISTORY_TURNS turns appended to a history that began empty
FifoRetentionWitness ==
    \E c \in Channels : Base(c) = <<>> /\ Len(Appended(c)) > MAX_HISTORY_TURNS

(***************************************************************************)
(* C13.  Send failure: a reply whose send raised is never in the history,  *)
(* every bot turn made in this run is there because its send succeeded,    *)
(* and the handler whose send raised has ended with the process running.   *)
(***************************************************************************)
Turns(c) == {HistOf(channel_histories, c)[i] : i \in 1..Len(HistOf(channel_histories, c))}

SendFailure ==
    /\ \A i \in 1..Len(log) :
          log[i].e = "sendfail" =>
              /\ \A c \in Channels : Turn("bot", log[i].msg) \notin Turns(c)
              /\ \A h \in handlers : h.msg # log[i].msg
              /\ proc = "running"
    /\ \A c \in Channels : \A t \in Turns(c) :
          (t.role = "bot" /\ t.content >= 1) =>
              \E i \in 1..Len(log) : log[i] = Cv("bot", c, t.content, <<>>)

\* a send has just failed; the message it answered is in the history
SendFailureWitness ==
    /\ log # <<>>
    /\ log[Len(log)].e = "sendfail"
    /\ Turn("user", log[Len(log)].msg) \in Turns(log[Len(log)].ch)

(***************************************************************************)
(* C14.  Remote AI failure.  The step in which the session factory raises  *)
(* records the user turn and nothing else: the registry, the other         *)
(* channels' histories and the pending AI calls are as before.  The step   *)
(* in which send_message raises leaves every history and the registry as   *)
(* they were and ends the handler: no new call is made for the message.    *)
(* No bot turn for a message whose session or AI call failed ever appears. *)
(***************************************************************************)
FailedMsgs == {log[i].msg : i \in {j \in 1..Len(log) : log[j].e \in {"nosession", "aifail"}}}

NoReplyRecorded == \A c \in Channels, m \in FailedMsgs : Turn("bot", m) \notin Turns(c)

FactoryFailureStep(c) ==
    /\ channel_sessions' = channel_sessions
    /\ HistOf(channel_histories', c)
         = Clamped(Append(HistOf(channel_histories, c), Turn("user", nextMsg')))
    /\ \A d \in Channels \ {c} :
          HistOf(channel_histories', d) = HistOf(channel_histories, d)
    /\ handlers' = handlers

CallFailureStep(h) ==
    /\ channel_sessions' = channel_sessions
    /\ channel_histories' = channel_histories
    /\ \A g \in handlers' : g.msg # h.msg

AiFailure ==
    /\ []NoReplyRecorded
    /\ [][/\ \A c \in Channels :
              (OnMessageMention(c, FALSE) /\ c \notin channel_sessions) => FactoryFailureStep(c)
          /\ \A h \in handlers :
              AiDone(h, FALSE) => CallFailureStep(h)]_vars

\* the factory has failed for one message and the AI call for another, and
\* a session is live
AiFailureWitness ==
    /\ \E i, j \in 1..Len(log) : log[i].e = "nosession" /\ log[j].e = "aifail"
    /\ channel_sessions # {}

(***************************************************************************)
(* C15.  Failed save: when the debounced save() has ended with its write   *)
(* failed, the pending-task marker is clear, so that the next              *)
(* schedule_save() call starts a new runner and with it a new attempt.     *)
(***************************************************************************)
FailedSaveRecovery ==
    (log # <<>> /\ log[Len(log)].e = "failed") => ~save_task

(***************************************************************************)
(* C16.  Pending-task marker accuracy: _save_task is set exactly when a    *)
(* debounce runner is live, sleeping or saving, and at most one is.        *)
(***************************************************************************)
MarkerAccurate ==
    /\ save_task <=> (runners # {})
    /\ Cardinality(runners) <= 1

(***************************************************************************)
(* C17.  History display is read-only.  The step that runs the history     *)
(* command for "!history n" in channel c shows the last k turns of c, k    *)
(* being n brought into 1..30, and leaves the History Store as on_message  *)
(* made it by recording the message (c's history with that user turn, the  *)
(* other channels and the set of keys as before) and the Session Registry  *)
(* as it was.                                                              *)
(***************************************************************************)
ShownCount(n) == IF n < 1 THEN 1 ELSE IF n > HISTORY_MAX_SHOWN THEN HISTORY_MAX_SHOWN ELSE n

HistoryStep(c, n) ==
    LET shown == log'[Len(log')].out
        h     == HistOf(channel_histories', c)
        k     == IF shown.n < Len(h) THEN shown.n ELSE Len(h)
    IN  /\ shown.n = ShownCount(n)
        /\ shown.turns = [i \in 1..k |-> h[Len(h) - k + i]]
        /\ h = Clamped(Append(HistOf(channel_histories, c), Turn("user", nextMsg')))
        /\ DOMAIN channel_histories' = (DOMAIN channel_histories) \cup {c}
        /\ \A d \in (DOMAIN channel_histories) \ {c} :
              channel_histories'[d] = channel_histories[d]
        /\ channel_sessions' = channel_sessions

HistoryReadOnly ==
    [][\A c \in Channels, n \in HistoryArgs :
         (OnMessageHistory(c, n) /\ log'[Len(log')].e = "history" /\ log'[Len(log')].msg = n)
             => HistoryStep(c, n)]_vars

\* "!history 0" has just shown one turn of a channel that holds more
HistoryReadOnlyWitness ==
    /\ log # <<>>
    /\ log[Len(log)].e = "history"
    /\ log[Len(log)].msg = 0
    /\ Len(log[Len(log)].out.turns) = 1
    /\ Len(HistOf(channel_histories, log[Len(log)].ch)) > 1

(***************************************************************************)
(* C18.  Per-channel ordering: in every channel's history the user turns   *)
(* of this run's messages stand in the order the messages arrived, and a   *)
(* bot turn stands after the user turn of the message it answers whenever  *)
(* that user turn is still there, however the handlers interleave.         *)
(***************************************************************************)
ArrivalOrder ==
    \A c \in DOMAIN channel_histories :
        LET h == channel_histories[c]
        IN  /\ \A i, j \in 1..Len(h) :
                  (i < j /\ h[i].role = "user" /\ h[j].role = "user" /\ h[i].content >= 1)
                      => h[i].content < h[j].content
            /\ \A i, j \in 1..Len(h) :
                  (h[j].role = "bot" /\ h[i] = Turn("user", h[j].content)) => i < j

\* the second message of a channel is answered while the handler of the
\* first is still suspended
ArrivalOrderWitness ==
    \E c \in DOMAIN channel_histories :
        /\ Turn("user", 2) \in Turns(c)
        /\ Turn("bot", 2) \in Turns(c)
        /\ \E h \in handlers : h.ch = c /\ h.msg = 1

(***************************************************************************)
(* C19.  The on-disk snapshot never regresses: once the save() that took   *)
(* the latest snapshot has finished its write, the state file holds that   *)
(* snapshot, and no older one is written over it.                          *)
(***************************************************************************)
NoRegression ==
    \A s \in saves :
        (s.pc = "resume" /\ s.ok /\ FileOf(s.data) = lastWrite.new) => file = lastWrite.new

(***************************************************************************)
(* C20.  Reset is not undone by in-flight work: when the latest            *)
(* reset_channel(c) has returned and no handler of c is suspended any      *)
(* more, c's history holds turns of messages received after that reset     *)
(* only, and c has a session only if the bot was addressed in c after it.  *)
(***************************************************************************)
Resets(c) == {i \in 1..Len(log) : log[i].e = "reset" /\ log[i].ch = c}

\* the message that made the latest reset of c
LastReset(c) == log[CHOOSE i \in Resets(c) : \A j \in Resets(c) : j <= i].msg

ResetSettled(c) ==
    /\ Resets(c) # {}
    /\ \A s \in saves : s.id # LastReset(c)
    /\ \A h \in handlers : h.ch # c

ResetNotUndone ==
    \A c \in Channels :
        ResetSettled(c) =>
            /\ \A t \in Turns(c) : t.content > LastReset(c)
            /\ c \in channel_sessions =>
                   \E i \in 1..Len(log) :
                       log[i].e = "asked" /\ log[i].ch = c /\ log[i].msg > LastReset(c)

====
